---- MODULE Spec2Model ----
(***************************************************************************)
(* Fatigue-scoring state machine of the drowsiness monitor (src/main.py). *)
(* A frame is abstracted to what get_frame reads of it: whether the read  *)
(* succeeded and, for every detected face in iteration order, the number  *)
(* of eyes the eye cascade found inside it.                                *)
(***************************************************************************)
EXTENDS Integers, Sequences, FiniteSets

\* ---------------------------------------------------------------- constants
SLEEP_THRESHOLD == 15

\* ------------------------------------------------------------------- bounds
MaxCameras == 1
MaxScore == 18
MaxFaces == 2

\* len(eyes) for one face; get_frame only tests len(eyes) == 0, so one eye
\* located (partial visibility) stands for every positive count
EyeCounts == {0, 1}

RECURSIVE SeqsUpTo(_, _)
SeqsUpTo(S, n) ==
    IF n = 0 THEN {<<>>}
    ELSE LET shorter == SeqsUpTo(S, n - 1)
         IN  shorter \cup {Append(q, e) : q \in {r \in shorter : Len(r) = n - 1}, e \in S}

\* what face_cascade.detectMultiScale / eye_cascade.detectMultiScale may return
FaceLists == SeqsUpTo(EyeCounts, MaxFaces)

VARIABLES
    cams,          \* the VideoCamera instances created so far
    score,         \* score[c]: self.score of camera c
    alarm_active,  \* the module-level latch
    alarm_sound,   \* TRUE: pygame Sound loaded, FALSE: None
    playing,       \* alarm driver: the sound is looping
    exceeded,      \* history: score was > SLEEP_THRESHOLD since the latch was last Off
    call,          \* the last get_frame call: camera, read result, faces, state before it
    status,        \* the status text drawn by the last call
    cmds,          \* the alarm_sound calls made by the last call, in order
    ret,           \* what the last call returned
    hist,          \* history of a session's frames (SpecRun): eyes-closed frames so far, current streak
    th             \* th[c]: where the request thread of camera c stands inside get_frame (SpecConc)

vars == <<cams, score, alarm_active, alarm_sound, playing, exceeded, call, status, cmds, ret,
          hist, th>>

NoCall == [cam |-> 0, success |-> FALSE, faces |-> <<>>, score0 |-> 0, active0 |-> FALSE]

\* a session that has processed no frame: score 0, latch Off
NoHist == [closed |-> 0, run |-> 0, base |-> 0, base_active |-> FALSE]

\* ------------------------------------------------------- per-frame local state
\* st: [score, alarm_active, playing, exceeded, status, cmds]

Track(st) ==
    [st EXCEPT !.exceeded = IF st.alarm_active
                            THEN @ \/ st.score > SLEEP_THRESHOLD
                            ELSE FALSE]

\* mutant: the face-lost branch forgets to reset the score
NoFace_KeepScore(st) ==
    [st EXCEPT !.status = "No Face Found"]

\* mutant: the face-lost branch also silences the alarm
NoFace_Silence(st) ==
    LET s1 == [st EXCEPT !.score = 0, !.status = "No Face Found"]
    IN  IF s1.alarm_active /\ alarm_sound
        THEN [s1 EXCEPT !.cmds = Append(@, "stop"), !.playing = FALSE,
                        !.alarm_active = FALSE]
        ELSE s1

\* if len(faces) == 0: self.score = 0; status = "No Face Found"
NoFace(st) ==
    [st EXCEPT !.score = 0, !.status = "No Face Found"]

\* mutant: the alarm fires at score >= SLEEP_THRESHOLD
EyesClosed_AtThreshold(st) ==
    LET s1 == [st EXCEPT !.score = @ + 1, !.status = "Eyes Closed"]
    IN  IF s1.score >= SLEEP_THRESHOLD
        THEN LET s2 == [s1 EXCEPT !.status = "DROWSINESS ALERT!"]
             IN  IF ~s2.alarm_active /\ alarm_sound
                 THEN [s2 EXCEPT !.cmds = Append(@, "play"), !.playing = TRUE,
                                 !.alarm_active = TRUE]
                 ELSE s2
        ELSE s1

\* mutant: the latch is set as soon as the eyes are closed, whatever the score
EyesClosed_NoDebounce(st) ==
    LET s1 == [st EXCEPT !.score = @ + 1, !.status = "Eyes Closed"]
        s2 == IF s1.score > SLEEP_THRESHOLD
              THEN [s1 EXCEPT !.status = "DROWSINESS ALERT!"]
              ELSE s1
    IN  IF ~s2.alarm_active /\ alarm_sound
        THEN [s2 EXCEPT !.cmds = Append(@, "play"), !.playing = TRUE,
                        !.alarm_active = TRUE]
        ELSE s2

\* mutant: the alarm is started without testing the latch
EyesClosed_Replay(st) ==
    LET s1 == [st EXCEPT !.score = @ + 1, !.status = "Eyes Closed"]
    IN  IF s1.score > SLEEP_THRESHOLD
        THEN LET s2 == [s1 EXCEPT !.status = "DROWSINESS ALERT!"]
             IN  IF alarm_sound
                 THEN [s2 EXCEPT !.cmds = Append(@, "play"), !.playing = TRUE,
                                 !.alarm_active = TRUE]
                 ELSE s2
        ELSE s1

\* mutant: the alert status is assigned inside the latch test
EyesClosed_StatusByLatch(st) ==
    LET s1 == [st EXCEPT !.score = @ + 1, !.status = "Eyes Closed"]
    IN  IF s1.score > SLEEP_THRESHOLD /\ ~s1.alarm_active /\ alarm_sound
        THEN [s1 EXCEPT !.status = "DROWSINESS ALERT!",
                        !.cmds = Append(@, "play"), !.playing = TRUE,
                        !.alarm_active = TRUE]
        ELSE s1

\* mutant: the alarm is started only at the step that crosses the threshold
EyesClosed_OnlyAtCrossing(st) ==
    LET s1 == [st EXCEPT !.score = @ + 1, !.status = "Eyes Closed"]
    IN  IF s1.score > SLEEP_THRESHOLD
        THEN LET s2 == [s1 EXCEPT !.status = "DROWSINESS ALERT!"]
             IN  IF ~s2.alarm_active /\ alarm_sound /\ s2.score = SLEEP_THRESHOLD + 1
                 THEN [s2 EXCEPT !.cmds = Append(@, "play"), !.playing = TRUE,
                                 !.alarm_active = TRUE]
                 ELSE s2
        ELSE s1

\* the branch len(eyes) == 0
EyesClosed(st) ==
    LET s1 == [st EXCEPT !.score = @ + 1, !.status = "Eyes Closed"]
    IN  IF s1.score > SLEEP_THRESHOLD
        THEN LET s2 == [s1 EXCEPT !.status = "DROWSINESS ALERT!"]
             IN  IF ~s2.alarm_active /\ alarm_sound
                 THEN [s2 EXCEPT !.cmds = Append(@, "play"), !.playing = TRUE,
                                 !.alarm_active = TRUE]
                 ELSE s2
        ELSE s1

\* mutant: the score is not floored at 0
EyesOpen_NoFloor(st) ==
    LET s1 == [st EXCEPT !.score = @ - 1, !.status = "Awake"]
    IN  IF s1.alarm_active /\ alarm_sound
        THEN [s1 EXCEPT !.cmds = Append(@, "stop"), !.playing = FALSE,
                        !.alarm_active = FALSE]
        ELSE s1

\* mutant: the alarm is stopped only once the score is back under the threshold
EyesOpen_StopBelow(st) ==
    LET dec == st.score - 1
        s1 == [st EXCEPT !.score = IF dec < 0 THEN 0 ELSE dec, !.status = "Awake"]
    IN  IF s1.alarm_active /\ alarm_sound /\ s1.score <= SLEEP_THRESHOLD
        THEN [s1 EXCEPT !.cmds = Append(@, "stop"), !.playing = FALSE,
                        !.alarm_active = FALSE]
        ELSE s1

\* the else branch (at least one eye located)
EyesOpen(st) ==
    LET dec == st.score - 1
        s1 == [st EXCEPT !.score = IF dec < 0 THEN 0 ELSE dec, !.status = "Awake"]
    IN  IF s1.alarm_active /\ alarm_sound
        THEN [s1 EXCEPT !.cmds = Append(@, "stop"), !.playing = FALSE,
                        !.alarm_active = FALSE]
        ELSE s1

\* one iteration of: for (x, y, w, h) in faces
ProcessFace(st, eyes) ==
    IF eyes = 0 THEN EyesClosed(st) ELSE EyesOpen(st)

\* the whole loop over faces, in iteration order
RECURSIVE ForFaces(_, _)
ForFaces(st, faces) ==
    IF faces = <<>> THEN st
    ELSE ForFaces(Track(ProcessFace(st, Head(faces))), Tail(faces))

\* mutant: the face-lost branch resets the score but leaves the status
Frame_NoFaceStatus(st, faces) ==
    LET s0 == [st EXCEPT !.status = "Active", !.cmds = <<>>]
        s1 == IF Len(faces) = 0 THEN Track([s0 EXCEPT !.score = 0]) ELSE s0
    IN  ForFaces(s1, faces)

\* the state machine part of get_frame on a frame that was read
Frame(st, faces) ==
    LET s0 == [st EXCEPT !.status = "Active", !.cmds = <<>>]
        s1 == IF Len(faces) = 0 THEN Track(NoFace(s0)) ELSE s0
    IN  ForFaces(s1, faces)

Local(c) ==
    [score |-> score[c], alarm_active |-> alarm_active, playing |-> playing,
     exceeded |-> exceeded, status |-> status, cmds |-> cmds]

\* ------------------------------------------------------------------- actions
Init ==
    /\ cams = {}
    /\ score = [c \in {} |-> 0]
    /\ alarm_active = FALSE
    /\ alarm_sound \in BOOLEAN
    /\ playing = FALSE
    /\ exceeded = FALSE
    /\ call = NoCall
    /\ status = "None"
    /\ cmds = <<>>
    /\ ret = "None"
    /\ hist = NoHist
    /\ th = <<>>

\* GET /video_feed: Response(gen(VideoCamera()))
video_feed ==
    /\ Cardinality(cams) < MaxCameras
    /\ LET c == Cardinality(cams) + 1
       IN  /\ cams' = cams \cup {c}
           /\ score' = [d \in cams \cup {c} |-> IF d = c THEN 0 ELSE score[d]]
    /\ UNCHANGED <<alarm_active, alarm_sound, playing, exceeded, call, status, cmds, ret>>

\* mutant: a failed read is not returned early and is handled as a frame
\* without faces
get_frame_FailAsNoFace(c) ==
    \E success \in BOOLEAN, faces \in FaceLists :
        /\ call' = [cam |-> c, success |-> success,
                    faces |-> IF success THEN faces ELSE <<>>,
                    score0 |-> score[c], active0 |-> alarm_active]
        /\ (~success => faces = <<>>)
        /\ LET st == Frame(Local(c), faces)
           IN  /\ st.score <= MaxScore
               /\ score' = [score EXCEPT ![c] = st.score]
               /\ alarm_active' = st.alarm_active
               /\ playing' = st.playing
               /\ exceeded' = st.exceeded
               /\ status' = st.status
               /\ cmds' = st.cmds
               /\ ret' = "jpeg"
        /\ UNCHANGED <<cams, alarm_sound>>

\* one iteration of gen(camera): frame = camera.get_frame()
get_frame(c) ==
    \E success \in BOOLEAN, faces \in FaceLists :
        /\ call' = [cam |-> c, success |-> success,
                    faces |-> IF success THEN faces ELSE <<>>,
                    score0 |-> score[c], active0 |-> alarm_active]
        /\ IF ~success
           THEN /\ faces = <<>>
                /\ ret' = "None"
                /\ status' = "None"
                /\ cmds' = <<>>
                /\ UNCHANGED <<score, alarm_active, playing, exceeded>>
           ELSE LET st == Frame(Local(c), faces)
                IN  /\ st.score <= MaxScore
                    /\ score' = [score EXCEPT ![c] = st.score]
                    /\ alarm_active' = st.alarm_active
                    /\ playing' = st.playing
                    /\ exceeded' = st.exceeded
                    /\ status' = st.status
                    /\ cmds' = st.cmds
                    /\ ret' = "jpeg"
        /\ UNCHANGED <<cams, alarm_sound>>

Next ==
    \/ video_feed /\ UNCHANGED <<hist, th>>
    \/ \E c \in cams : get_frame(c) /\ UNCHANGED <<hist, th>>

Spec == Init /\ [][Next]_vars

\* ------------------------------------------- one session, with its history
\* the state after the first GET /video_feed
InitRun ==
    /\ cams = {1}
    /\ score = [c \in {1} |-> 0]
    /\ alarm_active = FALSE
    /\ alarm_sound \in BOOLEAN
    /\ playing = FALSE
    /\ exceeded = FALSE
    /\ call = NoCall
    /\ status = "None"
    /\ cmds = <<>>
    /\ ret = "None"
    /\ hist = NoHist
    /\ th = <<>>

\* hist after the call cl that left score sc and latch act:
\*   closed: frames with an eyes-closed face processed so far (counted up to
\*           SLEEP_THRESHOLD + 1)
\*   run:    length of the current streak of consecutive frames with exactly
\*           one face, eyes closed
\*   base, base_active: score and latch when that streak started
HistAfter(h, cl, sc, act) ==
    LET streak == cl.success /\ cl.faces = <<0>>
        closed == cl.success /\ \E i \in 1..Len(cl.faces) : cl.faces[i] = 0
        more == IF h.closed < SLEEP_THRESHOLD + 1 THEN h.closed + 1 ELSE h.closed
    IN  [closed |-> IF closed THEN more ELSE h.closed,
         run |-> IF streak THEN h.run + 1 ELSE 0,
         base |-> IF streak THEN h.base ELSE sc,
         base_active |-> IF streak THEN h.base_active ELSE act]

\* one iteration of gen(camera), recorded in the history
gen(c) ==
    /\ get_frame(c)
    /\ hist' = HistAfter(hist, call', score'[c], alarm_active')
    /\ UNCHANGED th

NextRun == \E c \in cams : gen(c)

SpecRun == InitRun /\ [][NextRun]_vars

\* ------------------------------- two sessions, get_frame step by step
Sessions == {1, 2}

Idle == [pc |-> "idle", faces |-> <<>>]

\* the state after two GET /video_feed requests, each served by its own thread
InitConc ==
    /\ cams = Sessions
    /\ score = [c \in Sessions |-> 0]
    /\ alarm_active = FALSE
    /\ alarm_sound \in BOOLEAN
    /\ playing = FALSE
    /\ exceeded = FALSE
    /\ call = NoCall
    /\ status = "None"
    /\ cmds = <<>>
    /\ ret = "None"
    /\ hist = NoHist
    /\ th = [c \in Sessions |-> Idle]

Observed == <<cams, alarm_sound, exceeded, call, status, cmds, ret, hist>>

\* success, image = self.video.read() ... if len(faces) == 0: self.score = 0
read_frame(c) ==
    /\ th[c].pc = "idle"
    /\ \E success \in BOOLEAN, faces \in FaceLists :
          IF ~success
          THEN /\ faces = <<>>
               /\ UNCHANGED <<score, th>>
          ELSE /\ score' = IF faces = <<>> THEN [score EXCEPT ![c] = 0] ELSE score
               /\ th' = [th EXCEPT ![c] = [pc |-> "loop", faces |-> faces]]
    /\ UNCHANGED <<alarm_active, playing>>
    /\ UNCHANGED Observed

\* one iteration of the for loop up to the test of alarm_active, or the
\* end of the loop and the return of the rendered frame
loop_face(c) ==
    /\ th[c].pc = "loop"
    /\ IF th[c].faces = <<>>
       THEN /\ th' = [th EXCEPT ![c] = Idle]
            /\ UNCHANGED score
       ELSE LET eyes == Head(th[c].faces)
                rest == Tail(th[c].faces)
                inc == score[c] + 1
                dec == IF score[c] - 1 < 0 THEN 0 ELSE score[c] - 1
            IN  IF eyes = 0
                THEN /\ inc <= MaxScore
                     /\ score' = [score EXCEPT ![c] = inc]
                     /\ th' = [th EXCEPT ![c] =
                                  [pc |-> IF inc > SLEEP_THRESHOLD /\ ~alarm_active /\ alarm_sound
                                          THEN "play" ELSE "loop",
                                   faces |-> rest]]
                ELSE /\ score' = [score EXCEPT ![c] = dec]
                     /\ th' = [th EXCEPT ![c] =
                                  [pc |-> IF alarm_active /\ alarm_sound
                                          THEN "stop" ELSE "loop",
                                   faces |-> rest]]
    /\ UNCHANGED <<alarm_active, playing>>
    /\ UNCHANGED Observed

\* alarm_sound.play(-1)
play(c) ==
    /\ th[c].pc = "play"
    /\ playing' = TRUE
    /\ th' = [th EXCEPT ![c].pc = "set_active"]
    /\ UNCHANGED <<score, alarm_active>>
    /\ UNCHANGED Observed

\* alarm_active = True
set_active(c) ==
    /\ th[c].pc = "set_active"
    /\ alarm_active' = TRUE
    /\ th' = [th EXCEPT ![c].pc = "loop"]
    /\ UNCHANGED <<score, playing>>
    /\ UNCHANGED Observed

\* alarm_sound.stop()
stop(c) ==
    /\ th[c].pc = "stop"
    /\ playing' = FALSE
    /\ th' = [th EXCEPT ![c].pc = "clear_active"]
    /\ UNCHANGED <<score, alarm_active>>
    /\ UNCHANGED Observed

\* alarm_active = False
clear_active(c) ==
    /\ th[c].pc = "clear_active"
    /\ alarm_active' = FALSE
    /\ th' = [th EXCEPT ![c].pc = "loop"]
    /\ UNCHANGED <<score, playing>>
    /\ UNCHANGED Observed

NextConc ==
    \E c \in cams :
        \/ read_frame(c)
        \/ loop_face(c)
        \/ play(c)
        \/ set_active(c)
        \/ stop(c)
        \/ clear_active(c)

SpecConc == InitConc /\ [][NextConc]_vars

\* ---------------------------------------------------------------- typing
TypeOK ==
    /\ cams \subseteq 1..(MaxCameras + 1)
    /\ DOMAIN score = cams
    /\ \A c \in cams : score[c] \in Int
    /\ alarm_active \in BOOLEAN
    /\ alarm_sound \in BOOLEAN
    /\ playing \in BOOLEAN
    /\ status \in {"None", "Active", "No Face Found", "Eyes Closed",
                   "DROWSINESS ALERT!", "Awake"}
    /\ ret \in {"None", "jpeg"}

\* helpers over the last call
Read == call.success
LastFace == call.faces[Len(call.faces)]
HasClosedFace == \E i \in 1..Len(call.faces) : call.faces[i] = 0
HasOpenFace == \E i \in 1..Len(call.faces) : call.faces[i] > 0
Now == score[call.cam]

Max0(n) == IF n < 0 THEN 0 ELSE n
Issued(cmd) == \E i \in 1..Len(cmds) : cmds[i] = cmd
TurnedOn == Read /\ ~call.active0 /\ alarm_active

\* the state before the last call, as get_frame found it
Before ==
    [score |-> call.score0, alarm_active |-> call.active0, playing |-> call.active0,
     exceeded |-> call.active0, status |-> "Active", cmds |-> <<>>]

\* ------------------------------------------------------------------- claims

\* C1 (as stated): the latch goes Off -> On only at a get_frame step whose
\* score was <= SLEEP_THRESHOLD before the step and is > SLEEP_THRESHOLD after.
C1_OnOnlyAtCrossing ==
    TurnedOn => (call.score0 <= SLEEP_THRESHOLD /\ Now > SLEEP_THRESHOLD)

\* C1 (amended): the latch goes Off -> On only at a get_frame step that
\* processed an eyes-closed face, started the alarm sound and left the score
\* > SLEEP_THRESHOLD; the score before the step may already be above it.
C1_OnOnlyAboveThreshold ==
    TurnedOn => (HasClosedFace /\ Now > SLEEP_THRESHOLD /\ Issued("play") /\ playing)

\* the latch is re-armed by an eyes-closed frame while the score was already above
C1_Witness ==
    TurnedOn /\ call.faces = <<0>> /\ call.score0 > SLEEP_THRESHOLD

\* C2: the score of every session is >= 0 in every reachable state.
C2_ScoreNonNegative ==
    \A c \in cams : score[c] >= 0

\* an eyes-open frame processed at score 0
C2_Witness ==
    Read /\ call.faces = <<1>> /\ call.score0 = 0 /\ Now = 0

\* C3: when the latch is On and the sample processed is eyes-open, the latch
\* is Off after the step, the sound was stopped and the status is "Awake",
\* whatever the score.
C3_OpenEyesSilence ==
    (Read /\ call.active0 /\ call.faces # <<>> /\ LastFace > 0)
        => (~alarm_active /\ ~playing /\ Issued("stop") /\ status = "Awake")

\* the alarm is silenced while the score is still above the threshold
C3_Witness ==
    /\ Read /\ call.active0 /\ call.faces = <<1>>
    /\ Now > SLEEP_THRESHOLD /\ ~alarm_active /\ status = "Awake"

\* C4: a step with one eyes-closed face that leaves score > SLEEP_THRESHOLD
\* ends with the latch On, whether or not the alarm sound is available.
C4_AlarmOnAboveThreshold ==
    (Read /\ call.faces = <<0>> /\ Now > SLEEP_THRESHOLD) => alarm_active

\* C5: a face-lost step sets the score to 0 and draws "No Face Found".
C5_FaceLostResets ==
    (Read /\ call.faces = <<>>) => (Now = 0 /\ status = "No Face Found")

\* a face-lost frame processed at a positive score
C5_Witness ==
    Read /\ call.faces = <<>> /\ call.score0 > 0 /\ Now = 0

\* C6: a step without an eyes-open face (face lost, eyes closed, or a failed
\* read) leaves an On latch On and issues no stop.
C6_LatchClearedOnlyByOpenEyes ==
    (call.cam # 0 /\ call.active0 /\ ~(Read /\ HasOpenFace))
        => (alarm_active /\ playing /\ ~Issued("stop"))

\* the latch is still On after a face-lost frame reset the score to 0
C6_Witness ==
    Read /\ call.active0 /\ call.faces = <<>> /\ alarm_active /\ Now = 0

\* C7: a frame with a face present changes the score by exactly one unit:
\* +1 for eyes closed, -1 floored at 0 for eyes open.
C7_OneUnitPerFrame ==
    (Read /\ call.faces # <<>>)
        => Now = IF LastFace = 0 THEN call.score0 + 1 ELSE Max0(call.score0 - 1)

\* C8: if the latch is On, the score exceeded SLEEP_THRESHOLD at some step
\* since the latch was last Off.
C8_LatchImpliesExceeded ==
    alarm_active => exceeded

\* the latch is On although the score is back at or under the threshold
C8_Witness ==
    alarm_active /\ exceeded /\ Read /\ Now <= SLEEP_THRESHOLD

\* C9: one get_frame call makes at most one alarm_sound call.
C9_AtMostOneCommand ==
    Len(cmds) <= 1

\* C10: the state after a frame with faces is the one obtained by processing
\* only its last face from the state before the frame.
C10_LastFaceDecides ==
    (Read /\ call.faces # <<>>)
        => LET st == Frame(Before, <<LastFace>>)
           IN  /\ Now = st.score
               /\ alarm_active = st.alarm_active
               /\ status = st.status

\* gen: `if frame:` yields the multipart chunk only for a frame that is not None
Yields == ret # "None"

Alternates(q) == \A i \in 1..(Len(q) - 1) : q[i] # q[i + 1]

\* C12: within a session play(-1) is invoked only with the latch Off and
\* stop() only with it On: the alarm_sound calls of a get_frame call alternate,
\* the first is play exactly if the latch was Off before the call, the driver
\* loops exactly while the latch is On, and a frame of eyes-closed faces
\* processed with the latch On makes no call at all.
C12_CallsAlternate ==
    /\ playing = alarm_active
    /\ Alternates(cmds)
    /\ cmds # <<>> =>
          /\ cmds[1] = (IF call.active0 THEN "stop" ELSE "play")
          /\ cmds[Len(cmds)] = (IF alarm_active THEN "play" ELSE "stop")
    /\ (Read /\ call.active0 /\ ~HasOpenFace) => cmds = <<>>

\* an eyes-closed frame above the threshold with the latch already On:
\* the score grows, nothing is replayed
C12_Witness ==
    /\ Read /\ call.faces = <<0>> /\ call.active0
    /\ call.score0 > SLEEP_THRESHOLD /\ Now = call.score0 + 1
    /\ cmds = <<>> /\ alarm_active /\ playing

\* C14: the status drawn depends only on the last sample and the score after
\* the step, not on the latch: eyes closed gives "DROWSINESS ALERT!" above the
\* threshold and "Eyes Closed" otherwise, eyes open gives "Awake", no face
\* gives "No Face Found"; a frame of eyes-closed faces that ends at or under
\* the threshold leaves the latch and the driver untouched.
C14_StatusBySampleAndScore ==
    Read =>
        /\ status = IF call.faces = <<>> THEN "No Face Found"
                    ELSE IF LastFace > 0 THEN "Awake"
                    ELSE IF Now > SLEEP_THRESHOLD THEN "DROWSINESS ALERT!"
                    ELSE "Eyes Closed"
        /\ (call.faces # <<>> /\ ~HasOpenFace /\ Now <= SLEEP_THRESHOLD)
              => (alarm_active = call.active0 /\ cmds = <<>>)

\* "Eyes Closed" is drawn while the latch is On
C14_Witness ==
    /\ Read /\ call.faces = <<0>> /\ Now <= SLEEP_THRESHOLD
    /\ call.active0 /\ alarm_active /\ status = "Eyes Closed"

\* C17: the status drawn on a frame that was read is one of the four labels,
\* never the initial "Active".
C17_StatusNeverActive ==
    (call.cam # 0 /\ (Read \/ ret = "jpeg"))
        => status \in {"No Face Found", "Eyes Closed", "DROWSINESS ALERT!", "Awake"}

\* a frame without faces was rendered
C17_Witness ==
    Read /\ call.faces = <<>> /\ ret = "jpeg" /\ status = "No Face Found"

\* C18: a failed read returns None, leaves the score and the latch as they
\* were, makes no alarm_sound call, and gen yields nothing for it.
C18_FailedReadNoEffect ==
    (call.cam # 0 /\ ~Read)
        => /\ ret = "None" /\ ~Yields
           /\ Now = call.score0
           /\ alarm_active = call.active0 /\ playing = call.active0
           /\ cmds = <<>>

\* a read fails while the alarm rings and the score is positive
C18_Witness ==
    /\ call.cam # 0 /\ ~Read /\ ret = "None"
    /\ call.score0 > 0 /\ call.active0 /\ alarm_active

FromInitial == hist.base = 0 /\ ~hist.base_active

\* C11: with several sessions running, a step of one session's get_frame
\* changes neither the score nor the alarm latch that another session reads.
C11_SessionsIndependent ==
    [][\A c \in cams : \A d \in cams \ {c} :
          th'[c] # th[c] => (score'[d] = score[d] /\ alarm_active' = alarm_active)]_vars

\* C13: from the initial state the latch is not On before SLEEP_THRESHOLD + 1
\* frames with eyes closed were processed; over consecutive single-face
\* eyes-closed frames it is Off with "Eyes Closed" after each of the first
\* SLEEP_THRESHOLD frames and On with "DROWSINESS ALERT!" after the next one.
C13_Debounce ==
    /\ alarm_active => hist.closed >= SLEEP_THRESHOLD + 1
    /\ (FromInitial /\ hist.run \in 1..SLEEP_THRESHOLD)
          => (~alarm_active /\ status = "Eyes Closed")
    /\ (FromInitial /\ hist.run = SLEEP_THRESHOLD + 1)
          => (alarm_active /\ status = "DROWSINESS ALERT!")

\* C15: with two sessions interleaving at the test, the driver call and the
\* latch assignment, play(-1) is never invoked while the sound already loops
\* and stop() never while it does not.
C15_NoRedundantDriverCalls ==
    [][\A c \in cams :
          /\ (th[c].pc = "play" /\ th'[c].pc # "play") => ~playing
          /\ (th[c].pc = "stop" /\ th'[c].pc # "stop") => playing]_vars

\* C16: with the alarm sound loaded, once a streak of consecutive single-face
\* eyes-closed frames that started at score s has reached
\* max(1, SLEEP_THRESHOLD + 1 - s) frames, the latch is On, and it stays On
\* for as long as the streak goes on.
C16_BoundedResponse ==
    (alarm_sound /\ hist.run >= 1 /\ hist.run >= SLEEP_THRESHOLD + 1 - hist.base)
        => (alarm_active /\ playing)

\* a streak that started at a score in 1..SLEEP_THRESHOLD - 1 with the latch
\* Off has just reached its bound
C16_Witness ==
    /\ alarm_sound /\ ~hist.base_active /\ hist.base > 0
    /\ hist.run > 1 /\ hist.run = SLEEP_THRESHOLD + 1 - hist.base
    /\ alarm_active

====
